---- MODULE Spec2Model ----
(***************************************************************************)
(* Model of the daily operating-metrics engine of on-off-hours:            *)
(* integrated_main.py and integrated_runonce.py.                           *)
(*                                                                         *)
(* Units.  Sensor values are kept in hundredths of an engineering unit     *)
(* (0.41 is 41, 3.0 is 300, 7 is 700), times in whole seconds since the    *)
(* midnight that starts day 0.  An optional value (Python None, pandas     *)
(* NaN) is the empty sequence; a present value v is <<v>>.                 *)
(***************************************************************************)
EXTENDS Integers, Sequences, FiniteSets, TLC

VARIABLES
    site,           \* "main" (integrated_main.py) or "runonce" (integrated_runonce.py)
    sensor_column,  \* the designated channel: "sZ" or "t2"
    cfg,            \* the Threshold Config of the run
    rows,           \* fetched readings, already extracted: [time, raw]
    data,           \* the prepared frame: [time, date, raw, v, ON]
    dates,          \* dates of the groupby still to process, ascending
    group,          \* the current day's readings, time-sorted
    pc,             \* position in process_vibration_data
    i,              \* cursor of the ON-time scan
    total_on_seconds,
    total_off_seconds,
    j,              \* cursor of the cycle scan
    cycle_count,
    off_counter,
    results,        \* the records appended so far
    lastStep,       \* history: what the last scan step examined
    prev,           \* results of an earlier run on related input (two-run specifications)
    \* extract_sensor_value
    sensor_readings, \* the raw payload of one reading
    sensor_type,    \* the channel asked for
    xpc,            \* position in extract_sensor_value
    xk,             \* index of the entry the for loop is at
    xresult,        \* the value returned
    \* integrated_main.main and the machine_metrics table
    device_config,  \* the threshold entry of each device of TYPE1_DEVICES
    bpc,            \* position in main
    dev,            \* index of the device the for loop is at
    table,          \* machine_metrics: a sequence of rows
    invoked,        \* history: the devices process_device was called for, this run
    outcome,        \* history: how process_device ended for each device, this run
    thisRun,        \* history: the results computed for each device, this run
    lastRun,        \* history: the last committed results per (device, date)
    runs            \* number of runs started

scanVars == <<site, sensor_column, cfg, rows, data, dates, group, pc, i,
              total_on_seconds, total_off_seconds, j, cycle_count, off_counter,
              results, lastStep, prev>>

extractVars == <<sensor_readings, sensor_type, xpc, xk, xresult>>

batchVars == <<device_config, bpc, dev, table, invoked, outcome, thisRun,
               lastRun, runs>>

vars == <<scanVars, extractVars, batchVars>>

----------------------------------------------------------------------------
(* Bounds of the model *)

MaxLen == 3

(* Program constants *)

SecondsPerMinute == 60
MinutesPerHour == 60
HoursPerDay == 24
ExtremeBound == 700
DefaultPositiveThreshold == 41
DefaultWindowMinutes == 15
DefaultMaxVibration == 300
DefaultOffCount == 100

total_seconds_in_day == HoursPerDay * MinutesPerHour * SecondsPerMinute

----------------------------------------------------------------------------
(* Optional numbers and the comparisons Python and pandas make on them *)

None == <<>>

Num(x) == <<x>>

IsNone(x) == x = None

(* x > y where x may be NaN: every comparison with NaN is False *)
Gt(x, y) == x # None /\ x[1] > y

Lt(x, y) == x # None /\ x[1] < y

Le(x, y) == x # None /\ x[1] <= y

Min(a, b) == IF a <= b THEN a ELSE b

RECURSIVE SeqMax(_)
SeqMax(s) == IF Len(s) = 1 THEN s[1]
             ELSE LET m == SeqMax(Tail(s)) IN IF s[1] >= m THEN s[1] ELSE m

RECURSIVE SeqMin(_)
SeqMin(s) == IF Len(s) = 1 THEN s[1]
             ELSE LET m == SeqMin(Tail(s)) IN IF s[1] <= m THEN s[1] ELSE m

----------------------------------------------------------------------------
(* Preparation of the frame: fillna, cleaning, classification *)

VibrationColumns == {"sX", "sY", "sZ"}

(* integrated_main fills absent values with 0; integrated_runonce keeps them *)
FillNa(st, x) == IF st = "main" /\ x = None THEN Num(0) ELSE x

(* values beyond +-7 are replaced by 0 in the vibration columns only *)
Clean(col, x) ==
    IF col \in VibrationColumns /\ (Gt(x, ExtremeBound) \/ Lt(x, -ExtremeBound))
    THEN Num(0) ELSE x

(* the comparisons made inclusive *)
IsOnInclusive(x, c) ==
    x # None /\ (x[1] >= c.positive_threshold \/ x[1] <= c.negative_threshold)

IsOn(x, c) == Gt(x, c.positive_threshold) \/ Lt(x, c.negative_threshold)

DateOf(t) == t \div total_seconds_in_day

PrepareRow(st, col, c, r) ==
    LET v == Clean(col, FillNa(st, r.raw))
    IN [time |-> r.time, date |-> DateOf(r.time), raw |-> r.raw, v |-> v,
        ON |-> IsOn(v, c)]

(* In integrated_runonce a column in which every extracted value is None keeps *)
(* dtype object: the vectorised comparisons of the preparation give False,     *)
(* the scalar comparison None > positive_threshold of the cycle scan (runonce  *)
(* line 153) raises TypeError.  With one number in the column the Nones are    *)
(* NaN.                                                                        *)
ColumnAllNone(rs) == Len(rs) > 0 /\ \A k \in 1..Len(rs) : rs[k].raw = None

ScalarCompareRaises(st, rs) == st = "runonce" /\ ColumnAllNone(rs)

RECURSIVE InsertByTime(_, _)
InsertByTime(s, r) ==
    IF s = <<>> THEN <<r>>
    ELSE IF s[Len(s)].time <= r.time THEN Append(s, r)
    ELSE Append(InsertByTime(SubSeq(s, 1, Len(s) - 1), r), s[Len(s)])

(* sort_values('time'): a stable sort of the day's rows *)
RECURSIVE SortByTime(_)
SortByTime(s) ==
    IF s = <<>> THEN <<>>
    ELSE InsertByTime(SortByTime(SubSeq(s, 1, Len(s) - 1)), s[Len(s)])

RECURSIVE SortedSet(_)
SortedSet(S) ==
    IF S = {} THEN <<>>
    ELSE LET m == CHOOSE x \in S : \A y \in S : x <= y
         IN <<m>> \o SortedSet(S \ {m})

(* data.groupby('date'): the dates present, ascending *)
GroupDates(d) == SortedSet({d[k].date : k \in 1..Len(d)})

GroupOf(d, dt) == LET OnDate(r) == r.date = dt IN SortByTime(SelectSeq(d, OnDate))

----------------------------------------------------------------------------
(* The ON-time scan of one day *)

WindowSeconds(c) == c.window_size * SecondsPerMinute

(* the window without its lower bound time >= current_time *)
WindowDataNoLowerBound(g, t, c) ==
    LET InWin(r) == r.time < t + WindowSeconds(c)
    IN SelectSeq(g, InWin)

(* group[(time >= current_time) & (time < window_end_time)] *)
WindowData(g, t, c) ==
    LET InWin(r) == r.time >= t /\ r.time < t + WindowSeconds(c)
    IN SelectSeq(g, InWin)

Times(w) == [k \in 1..Len(w) |-> w[k].time]

(* a full window credited to every window of two readings or more *)
WindowCreditFullWindow(w, c) == IF Len(w) > 1 THEN WindowSeconds(c) ELSE 0

(* what one window adds to total_on_seconds *)
WindowCredit(w, c) ==
    IF Len(w) > 1
    THEN Min(SeqMax(Times(w)) - SeqMin(Times(w)), WindowSeconds(c))
    ELSE 0

(* the advance that leaves the seeding reading out *)
WindowAdvanceExcludingSeed(w) == Len(w) - 1

(* how far one iteration on an ON reading moves the cursor i *)
WindowAdvance(w) == Len(w)

----------------------------------------------------------------------------
(* The cycle scan of one day.  Cursors are 0-based as in the source:       *)
(* the reading at cursor j is g[j + 1].                                    *)

At(g, k) == g[k + 1]

(* the test without the max_vibration ceiling *)
ValidOnNoCeiling(x, c) == Gt(x, c.positive_threshold)

(* line 201-203 / runonce 153: the reading starts or continues a cycle *)
ValidOn(x, c) == Gt(x, c.positive_threshold) /\ Le(x, c.max_vibration)

(* line 220-222: integrated_main tests "is None" first *)
OffQualifiesMain(x, c) ==
    IsNone(x) \/ Le(x, c.positive_threshold) \/ Gt(x, c.max_vibration)

(* runonce 165: no None test; NaN fails both comparisons *)
OffQualifiesRunonce(x, c) ==
    Le(x, c.positive_threshold) \/ Gt(x, c.max_vibration)

OffQualifies(st, x, c) ==
    IF st = "main" THEN OffQualifiesMain(x, c) ELSE OffQualifiesRunonce(x, c)

(* the counter after one reading of the OFF-confirmation loop *)
NextOffCounter(st, x, c, n) == IF OffQualifies(st, x, c) THEN n + 1 ELSE 0

(* the confirmation test off by one *)
OffConfirmedStrict(n, c) == n > c.consecutive_off_count

OffConfirmed(n, c) == n >= c.consecutive_off_count

----------------------------------------------------------------------------
(* process_vibration_data, one action per step of its loops *)

StepRec(phase, idx, x, adv, counted) ==
    [phase |-> phase, idx |-> idx, v |-> x, advance |-> adv, counted |-> counted]

NoStep == StepRec("none", 0, None, 0, FALSE)

(* lines 133-161: extraction is done; fillna, cleaning, classification *)
Prepare ==
    /\ pc = "prepare"
    /\ data' = [k \in 1..Len(rows) |-> PrepareRow(site, sensor_column, cfg, rows[k])]
    /\ dates' = GroupDates(data')
    /\ pc' = "groupby"
    /\ lastStep' = NoStep
    /\ UNCHANGED <<site, sensor_column, cfg, rows, group, i, total_on_seconds,
                   total_off_seconds, j, cycle_count, off_counter, results, prev, extractVars, batchVars>>

(* lines 163-168: the next group of the groupby, sorted by time *)
NextDay ==
    /\ pc = "groupby"
    /\ dates # <<>>
    /\ group' = GroupOf(data, Head(dates))
    /\ dates' = Tail(dates)
    /\ total_on_seconds' = 0
    /\ i' = 0
    /\ pc' = "on_scan"
    /\ lastStep' = NoStep
    /\ UNCHANGED <<site, sensor_column, cfg, rows, data, total_off_seconds, j,
                   cycle_count, off_counter, results, prev, extractVars, batchVars>>

(* line 248: every group is done *)
Return ==
    /\ pc = "groupby"
    /\ dates = <<>>
    /\ pc' = "done"
    /\ lastStep' = NoStep
    /\ UNCHANGED <<site, sensor_column, cfg, rows, data, dates, group, i,
                   total_on_seconds, total_off_seconds, j, cycle_count,
                   off_counter, results, prev, extractVars, batchVars>>

(* lines 169-186: one iteration of the ON-time loop *)
OnScanStep ==
    /\ pc = "on_scan"
    /\ i < Len(group)
    /\ LET r == At(group, i)
           w == WindowData(group, r.time, cfg)
       IN IF r.ON
          THEN /\ total_on_seconds' = total_on_seconds + WindowCredit(w, cfg)
               /\ i' = i + WindowAdvance(w)
               /\ lastStep' = StepRec("window", i, r.v, WindowAdvance(w), FALSE)
          ELSE /\ total_on_seconds' = total_on_seconds
               /\ i' = i + 1
               /\ lastStep' = StepRec("off", i, r.v, 1, FALSE)
    /\ UNCHANGED <<site, sensor_column, cfg, rows, data, dates, group, pc,
                   total_off_seconds, j, cycle_count, off_counter, results, prev, extractVars, batchVars>>

(* the day counted in minutes instead of seconds *)
OffSecondsOfMinutes(on) == HoursPerDay * MinutesPerHour - on

OffSeconds(on) == total_seconds_in_day - on

(* lines 188-197: the ON-time loop is over; the cycle scan starts *)
OnScanEnd ==
    /\ pc = "on_scan"
    /\ i >= Len(group)
    /\ total_off_seconds' = OffSeconds(total_on_seconds)
    /\ cycle_count' = 0
    /\ j' = 0
    /\ off_counter' = 0
    /\ pc' = "search"
    /\ lastStep' = NoStep
    /\ UNCHANGED <<site, sensor_column, cfg, rows, data, dates, group, i,
                   total_on_seconds, results, prev, extractVars, batchVars>>

(* lines 198-205 and 234-235: the outer loop of the cycle scan *)
CycleSearch ==
    /\ pc = "search"
    /\ j < Len(group)
    /\ LET x == At(group, j).v
       IN IF ScalarCompareRaises(site, rows)
          THEN /\ cycle_count' = cycle_count
               /\ j' = j
               /\ pc' = "raised"
               /\ lastStep' = NoStep
          ELSE IF ValidOn(x, cfg)
          THEN /\ cycle_count' = cycle_count + 1
               /\ j' = j
               /\ pc' = "slide"
               /\ lastStep' = StepRec("search", j, x, 0, TRUE)
          ELSE /\ cycle_count' = cycle_count
               /\ j' = j + 1
               /\ pc' = "search"
               /\ lastStep' = StepRec("search", j, x, 1, FALSE)
    /\ UNCHANGED <<site, sensor_column, cfg, rows, data, dates, group, i,
                   total_on_seconds, total_off_seconds, off_counter, results, prev, extractVars, batchVars>>

(* lines 208-217: slide over the run of valid-ON readings *)
SlideStep ==
    /\ pc = "slide"
    /\ IF j < Len(group) /\ ValidOn(At(group, j).v, cfg)
       THEN /\ j' = j + 1
            /\ lastStep' = StepRec("slide", j, At(group, j).v, 1, FALSE)
            /\ IF j + 1 >= Len(group)
               THEN pc' = "confirm" /\ off_counter' = 0
               ELSE pc' = "slide" /\ off_counter' = off_counter
       ELSE /\ j' = j
            /\ lastStep' = StepRec("slide_end", j,
                                   IF j < Len(group) THEN At(group, j).v ELSE None,
                                   0, FALSE)
            /\ pc' = "confirm"
            /\ off_counter' = 0
    /\ UNCHANGED <<site, sensor_column, cfg, rows, data, dates, group, i,
                   total_on_seconds, total_off_seconds, cycle_count, results, prev, extractVars, batchVars>>

(* lines 218-233: one iteration of the OFF-confirmation loop *)
ConfirmStep ==
    /\ pc = "confirm"
    /\ IF j < Len(group)
       THEN LET x == At(group, j).v
                n == NextOffCounter(site, x, cfg, off_counter)
            IN /\ off_counter' = n
               /\ lastStep' = StepRec("confirm", j, x,
                                      IF OffConfirmed(n, cfg) THEN 0 ELSE 1, FALSE)
               /\ IF OffConfirmed(n, cfg)
                  THEN j' = j /\ pc' = "search"
                  ELSE /\ j' = j + 1
                       /\ pc' = IF j + 1 >= Len(group) THEN "search" ELSE "confirm"
       ELSE /\ pc' = "search"
            /\ lastStep' = NoStep
            /\ UNCHANGED <<j, off_counter>>
    /\ UNCHANGED <<site, sensor_column, cfg, rows, data, dates, group, i,
                   total_on_seconds, total_off_seconds, cycle_count, results, prev, extractVars, batchVars>>

(* line 192-193: divmod(int(seconds // 60), 60) *)
HoursOf(seconds) == (seconds \div SecondsPerMinute) \div MinutesPerHour

MinutesOf(seconds) == (seconds \div SecondsPerMinute) % MinutesPerHour

DayRecord(dt, on, off, cycles) ==
    [date |-> dt,
     on_hours |-> HoursOf(on), on_minutes |-> MinutesOf(on),
     off_hours |-> HoursOf(off), off_minutes |-> MinutesOf(off),
     total_on_seconds |-> on,
     cycle_count |-> cycles]

(* lines 237-246: the cycle scan is over; the day's record is appended *)
Store ==
    /\ pc = "search"
    /\ j >= Len(group)
    /\ results' = Append(results,
                         DayRecord(group[1].date, total_on_seconds,
                                   total_off_seconds, cycle_count))
    /\ pc' = "groupby"
    /\ lastStep' = NoStep
    /\ UNCHANGED <<site, sensor_column, cfg, rows, data, dates, group, i,
                   total_on_seconds, total_off_seconds, j, cycle_count,
                   off_counter, prev, extractVars, batchVars>>

ScanStep ==
    \/ Prepare
    \/ NextDay
    \/ Return
    \/ OnScanStep
    \/ OnScanEnd
    \/ CycleSearch
    \/ SlideStep
    \/ ConfirmStep
    \/ Store

----------------------------------------------------------------------------
(* Inputs *)

Sites == {"main", "runonce"}

(* SENSOR_MAP sends sensors 3 and 6 to sZ and sensor 5 to t2; runonce reads sZ *)
ColumnsOf(st) == IF st = "main" THEN {"sZ", "t2"} ELSE {"sZ"}

Config(n) ==
    [positive_threshold |-> DefaultPositiveThreshold,
     negative_threshold |-> -DefaultPositiveThreshold,
     window_size |-> DefaultWindowMinutes,
     max_vibration |-> DefaultMaxVibration,
     consecutive_off_count |-> n]

OffCounts == {1, 2}

(* absent, ON by the negative side, OFF at the positive threshold, valid ON, *)
(* above max_vibration, above the cleaning bound                             *)
RawValues == {None, Num(-50), Num(41), Num(50), Num(350), Num(800)}

(* 0 and 300 share a 15-minute window, 300 and 1200 are exactly one window *)
(* apart, 86400 is the first second of the next day                          *)
TimeGrid == {0, 300, 1200, 86400}

RowSet(T, V) == [time : T, raw : V]

TimeOrdered(s) == \A k \in 1..(Len(s) - 1) : s[k].time <= s[k + 1].time

(* fetch_device_data returns the rows ORDER BY time; ties come in any order *)
RowSeqs(n, T, V) ==
    {s \in UNION {[1..m -> RowSet(T, V)] : m \in 1..n} : TimeOrdered(s)}

Row(t, x) == [time |-> t, raw |-> Num(x)]

(* three readings at t=0, t=5min and t=8min *)
ScenarioRows == <<Row(0, 10), Row(300, 50), Row(480, 60)>>

(* the parts of the state a specification does not exercise *)
IdleExtract ==
    /\ sensor_readings = None
    /\ sensor_type = "sZ"
    /\ xpc = "idle"
    /\ xk = 0
    /\ xresult = None

IdleBatch ==
    /\ device_config = <<>>
    /\ bpc = "idle"
    /\ dev = 0
    /\ table = <<>>
    /\ invoked = <<>>
    /\ outcome = <<>>
    /\ thisRun = <<>>
    /\ lastRun = {}
    /\ runs = 0

InitScan ==
    /\ data = <<>>
    /\ dates = <<>>
    /\ group = <<>>
    /\ i = 0
    /\ total_on_seconds = 0
    /\ total_off_seconds = 0
    /\ j = 0
    /\ cycle_count = 0
    /\ off_counter = 0
    /\ results = <<>>
    /\ lastStep = NoStep
    /\ prev = <<>>

(* Spec: one run of process_vibration_data on channel sZ, at either call site *)
Init ==
    /\ site \in Sites
    /\ sensor_column = "sZ"
    /\ \/ cfg \in {Config(n) : n \in OffCounts} /\ rows \in RowSeqs(MaxLen, TimeGrid, RawValues)
       \/ cfg = Config(DefaultOffCount) /\ rows = ScenarioRows
    /\ InitScan
    /\ pc = "prepare"
    /\ IdleExtract
    /\ IdleBatch

Next == ScanStep

Spec == Init /\ [][Next]_vars

----------------------------------------------------------------------------
(* Properties of one run of process_vibration_data *)

CyclePhases == {"search", "slide", "confirm"}

IsScenario == rows = ScenarioRows /\ cfg = Config(DefaultOffCount)

(* C1, as stated: for the day with three readings at t=0 (0.1), t=5min (0.5) *)
(* and t=8min (0.6), threshold 0.41, window 15 minutes, max 3.0 and 100      *)
(* confirmations, the run returns on_seconds = 480, off_seconds = 85920 and  *)
(* cycle_count = 1.                                                          *)
C1_ScenarioAsStated ==
    (IsScenario /\ pc = "done") =>
        /\ Len(results) = 1
        /\ results[1].total_on_seconds = 480
        /\ total_off_seconds = 85920
        /\ results[1].cycle_count = 1

(* C1, amended: the window is seeded by the first ON reading, at t=5min, so   *)
(* the credited span runs from t=5min to t=8min: on_seconds = 180,            *)
(* off_seconds = 86220 and cycle_count = 1.                                   *)
C1_ScenarioAmended ==
    (IsScenario /\ pc = "done") =>
        /\ Len(results) = 1
        /\ results[1].total_on_seconds = 180
        /\ total_off_seconds = 86220
        /\ results[1].cycle_count = 1

C1_Witness == IsScenario /\ pc = "done" /\ Len(results) = 1

(* the last valid-ON reading before position k of the day, 0 when there is none *)
PrevValidOn(g, k, c) ==
    LET S == {m \in 1..(k - 1) : ValidOn(g[m].v, c)}
    IN IF S = {} THEN 0 ELSE CHOOSE m \in S : \A n \in S : n <= m

(* reading k is valid ON and at least consecutive_off_count readings, none of *)
(* them valid ON, lie between it and the valid-ON reading before it           *)
IsCycleStart(g, k, c) ==
    /\ ValidOn(g[k].v, c)
    /\ LET q == PrevValidOn(g, k, c)
       IN q = 0 \/ k - q - 1 >= c.consecutive_off_count

StartsUpTo(g, n, c) == Cardinality({k \in 1..n : IsCycleStart(g, k, c)})

(* C2: in integrated_main's cycle scan a counted cycle ends exactly when      *)
(* consecutive_off_count consecutive OFF-qualifying readings have been seen:  *)
(* a valid-ON reading after fewer of them does not increment cycle_count, the *)
(* first valid-ON reading after at least that many increments it by one.  So  *)
(* cycle_count is, at every point of the scan, the number of readings passed  *)
(* that are valid ON with a gap of at least consecutive_off_count before them.*)
C2_CycleEndsOnConfirmedOff ==
    (site = "main" /\ pc \in CyclePhases) =>
        cycle_count = StartsUpTo(group,
                                 IF pc = "slide" THEN Min(j + 1, Len(group)) ELSE j,
                                 cfg)

(* a second cycle has just been counted after a confirmed OFF run *)
C2_Witness ==
    /\ site = "main"
    /\ pc = "slide"
    /\ lastStep.counted
    /\ cycle_count = 2
    /\ PrevValidOn(group, j + 1, cfg) > 0

(* C3: a reading above max_vibration never increments cycle_count, ends the *)
(* run of valid-ON readings when met inside a cycle, and always increments  *)
(* the consecutive-off counter in the OFF-confirmation phase.               *)
C3_AnomalyExclusion ==
    [][(pc \in CyclePhases /\ j < Len(group)
            /\ Gt(At(group, j).v, cfg.max_vibration))
        => /\ cycle_count' = cycle_count
           /\ (pc = "slide" => pc' = "confirm" /\ j' = j)
           /\ (pc = "confirm" => off_counter' = off_counter + 1)]_vars

(* a reading above max_vibration has just been counted toward OFF confirmation *)
C3_Witness ==
    /\ lastStep.phase = "confirm"
    /\ Gt(lastStep.v, cfg.max_vibration)
    /\ off_counter >= 1
    /\ cycle_count = 1

(* C7: for every day, on_seconds + off_seconds = 86400: the two totals add up *)
(* once the ON-time scan is over, and the off_hours and off_minutes of every  *)
(* record are those of 86400 - total_on_seconds.                              *)
C7_Conservation ==
    /\ pc \in CyclePhases => total_on_seconds + total_off_seconds = 86400
    /\ \A k \in 1..Len(results) :
          LET r == results[k]
              off == (r.off_hours * MinutesPerHour + r.off_minutes) * SecondsPerMinute
          IN /\ off <= 86400 - r.total_on_seconds
             /\ 86400 - r.total_on_seconds < off + SecondsPerMinute

(* a day with ON time has been recorded *)
C7_Witness ==
    /\ pc = "groupby"
    /\ results # <<>>
    /\ results[Len(results)].total_on_seconds > 0
    /\ total_on_seconds + total_off_seconds = 86400

----------------------------------------------------------------------------
(* extract_sensor_value.  A payload is text or an object; text that parses   *)
(* gives the object it spells.  The object is a list of entries, null, a     *)
(* number or a single mapping.  An entry is a mapping, with or without the   *)
(* keys sensor_type and value, or a scalar.  The single mapping stands for   *)
(* a non-empty one.                                                          *)

MaxEntries == 2

NumberValue(n) == [t |-> "number", n |-> n]

NumericString(n) == [t |-> "numeric_string", n |-> n]

OtherString == [t |-> "string", n |-> 0]

NullValue == [t |-> "null", n |-> 0]

EntryValues == {NumberValue(50), NumericString(60), OtherString, NullValue}

Mapping(keys, s, val) == [kind |-> "mapping", keys |-> keys, sensor_type |-> s, value |-> val]

ScalarEntry == [kind |-> "scalar", keys |-> {}, sensor_type |-> "", value |-> NullValue]

Channels == {"sX", "sZ"}

Entries ==
    {ScalarEntry, Mapping({"value"}, "", NumberValue(50))}
    \cup {Mapping({"sensor_type"}, s, NullValue) : s \in Channels}
    \cup {Mapping({"sensor_type", "value"}, s, val) : s \in Channels, val \in EntryValues}

Body(t, items) == [t |-> t, items |-> items]

Bodies ==
    {Body("null", <<>>), Body("number", <<>>), Body("mapping", <<>>)}
    \cup {Body("list", items) : items \in UNION {[1..n -> Entries] : n \in 0..MaxEntries}}

Payloads ==
    {[form |-> "text", body |-> Body("garbage", <<>>)]}
    \cup {[form |-> f, body |-> b] : f \in {"text", "object"}, b \in Bodies}

(* float(value): ValueError and TypeError are caught and give None *)
FloatOrNone(val) ==
    IF val.t \in {"number", "numeric_string"} THEN Num(val.n) ELSE None

(* iterating the object raises TypeError unless it is a list: null and a    *)
(* number are not iterable, a mapping yields its keys, and a key, a string, *)
(* cannot be indexed by "sensor_type"                                       *)
IterationRaises(b) == b.t \in {"null", "number", "mapping"}

(* reading["sensor_type"] on an entry that is no mapping raises TypeError,  *)
(* which the handler of line 110 does not catch                             *)
SubscriptRaises(e) == e.kind # "mapping"

(* lines 96-100: json.loads of a text payload; JSONDecodeError is caught *)
ExtractParse ==
    /\ xpc = "start"
    /\ IF sensor_readings.form = "text" /\ sensor_readings.body.t = "garbage"
       THEN xpc' = "returned" /\ xresult' = None
       ELSE xpc' = "for" /\ xresult' = xresult
    /\ xk' = 1
    /\ UNCHANGED <<sensor_readings, sensor_type, scanVars, batchVars>>

(* lines 102-109: one iteration of the for loop, or its end *)
ExtractNext ==
    /\ xpc = "for"
    /\ LET b == sensor_readings.body
       IN IF IterationRaises(b)
          THEN xpc' = "raised" /\ UNCHANGED <<xk, xresult>>
          ELSE IF xk > Len(b.items)
          THEN xpc' = "returned" /\ xresult' = None /\ xk' = xk
          ELSE LET e == b.items[xk]
               IN IF SubscriptRaises(e)
                  THEN xpc' = "raised" /\ UNCHANGED <<xk, xresult>>
                  ELSE IF "sensor_type" \notin e.keys
                  THEN xpc' = "returned" /\ xresult' = None /\ xk' = xk
                  ELSE IF e.sensor_type # sensor_type
                  THEN xpc' = "for" /\ xk' = xk + 1 /\ xresult' = xresult
                  ELSE /\ xpc' = "returned"
                       /\ xk' = xk
                       /\ xresult' = IF "value" \in e.keys
                                     THEN FloatOrNone(e.value) ELSE None
    /\ UNCHANGED <<sensor_readings, sensor_type, scanVars, batchVars>>

ExtractStep == ExtractParse \/ ExtractNext

IdleScan ==
    /\ site = "main"
    /\ sensor_column = "sZ"
    /\ cfg = Config(DefaultOffCount)
    /\ rows = <<>>
    /\ InitScan
    /\ pc = "idle"

InitExtract ==
    /\ sensor_readings \in Payloads
    /\ sensor_type \in Channels
    /\ xpc = "start"
    /\ xk = 0
    /\ xresult = None
    /\ IdleScan
    /\ IdleBatch

SpecExtract == InitExtract /\ [][ExtractStep]_vars

WellFormed(e) == e.kind = "mapping" /\ e.keys = {"sensor_type", "value"}

Matches(items, s) == {k \in 1..Len(items) : items[k].sensor_type = s}

FirstMatch(items, s) == CHOOSE k \in Matches(items, s) : \A m \in Matches(items, s) : k <= m

(* what the contract gives for a payload whose entries are all well formed *)
ContractValue(p, s) ==
    IF p.body.t # "list" \/ Matches(p.body.items, s) = {}
    THEN None
    ELSE FloatOrNone(p.body.items[FirstMatch(p.body.items, s)].value)

(* C5: extract_sensor_value never raises, whatever the payload and channel;  *)
(* it returns None for a payload that is unparsable, null or no sequence,    *)
(* and for a list of {sensor_type, value} mappings the numeric value of the  *)
(* first entry of the channel, None when there is none or it is not numeric. *)
C5_ExtractNeverRaises ==
    /\ xpc # "raised"
    /\ (xpc = "returned" /\ sensor_readings.body.t # "list") => xresult = None
    /\ (xpc = "returned" /\ sensor_readings.body.t = "list"
            /\ \A k \in 1..Len(sensor_readings.body.items) :
                    WellFormed(sensor_readings.body.items[k]))
        => xresult = ContractValue(sensor_readings, sensor_type)

----------------------------------------------------------------------------
(* SpecClassify: one run on readings at and around the thresholds and the *)
(* cleaning bound, on a cleaned channel (sZ) or an uncleaned one (t2)     *)

MaxLenClassify == 2

BoundaryValues ==
    {None, Num(-800), Num(-50), Num(-41), Num(41), Num(50), Num(800)}

InitClassify ==
    /\ site \in Sites
    /\ sensor_column \in ColumnsOf(site)
    /\ cfg = Config(1)
    /\ rows \in RowSeqs(MaxLenClassify, {0, 300}, BoundaryValues)
    /\ InitScan
    /\ pc = "prepare"
    /\ IdleExtract
    /\ IdleBatch

SpecClassify == InitClassify /\ [][ScanStep]_vars

(* C8: is_on = (value > positive_threshold) OR (value < negative_threshold) *)
(* on the cleaned value of the designated channel; a reading exactly at     *)
(* positive_threshold is OFF and a reading exactly at negative_threshold is *)
(* OFF.                                                                     *)
C8_StrictThresholds ==
    \A k \in 1..Len(data) :
        LET x == data[k].v
        IN /\ x = Num(cfg.positive_threshold) => ~data[k].ON
           /\ x = Num(cfg.negative_threshold) => ~data[k].ON
           /\ data[k].ON <=>
                (x # None /\ (x[1] > cfg.positive_threshold
                              \/ x[1] < cfg.negative_threshold))

(* a frame with a reading at each threshold, both OFF, and an ON reading *)
C8_Witness ==
    /\ \E k \in 1..Len(data) : data[k].v = Num(cfg.positive_threshold) /\ ~data[k].ON
    /\ \E k \in 1..Len(data) : data[k].v = Num(cfg.negative_threshold) /\ ~data[k].ON

----------------------------------------------------------------------------
(* SpecSites: the same readings and Threshold Config run through         *)
(* integrated_main, then through integrated_runonce                      *)

SiteValues == {None, Num(41), Num(50), Num(350)}

Restart ==
    /\ data' = <<>>
    /\ dates' = <<>>
    /\ group' = <<>>
    /\ pc' = "prepare"
    /\ i' = 0
    /\ total_on_seconds' = 0
    /\ total_off_seconds' = 0
    /\ j' = 0
    /\ cycle_count' = 0
    /\ off_counter' = 0
    /\ results' = <<>>
    /\ lastStep' = NoStep

SwitchSite ==
    /\ pc = "done"
    /\ prev = <<>>
    /\ site = "main"
    /\ prev' = <<[site |-> site, results |-> results]>>
    /\ site' = "runonce"
    /\ Restart
    /\ UNCHANGED <<sensor_column, cfg, rows, extractVars, batchVars>>

InitSites ==
    /\ site = "main"
    /\ sensor_column = "sZ"
    /\ cfg \in {Config(n) : n \in OffCounts}
    /\ rows \in RowSeqs(MaxLen, TimeGrid, SiteValues)
    /\ InitScan
    /\ pc = "prepare"
    /\ IdleExtract
    /\ IdleBatch

NextSites == ScanStep \/ SwitchSite

SpecSites == InitSites /\ [][NextSites]_vars

CycleCounts(res) == [k \in 1..Len(res) |-> <<res[k].date, res[k].cycle_count>>]

AbsentAt(g, k) == k < Len(g) /\ At(g, k).raw = None

(* C6: at both call sites a reading whose value is absent is never classified *)
(* ON, never starts or continues a cycle, and in the OFF-confirmation phase   *)
(* increments the consecutive-off counter instead of resetting it; so for the *)
(* same readings and Threshold Config both call sites return the same         *)
(* cycle_count for every day.                                                 *)
C6_AbsentSameAtBothSites ==
    [][/\ \A k \in 1..Len(data') : data'[k].raw = None => ~data'[k].ON
       /\ (pc = "search" /\ AbsentAt(group, j)) => cycle_count' = cycle_count
       /\ (pc = "slide" /\ AbsentAt(group, j)) => pc' = "confirm" /\ j' = j
       /\ (pc = "confirm" /\ AbsentAt(group, j)) => off_counter' = off_counter + 1
       /\ (prev' # <<>> /\ pc' = "done")
            => CycleCounts(results') = CycleCounts(prev'[1].results)]_vars

----------------------------------------------------------------------------
(* SpecInsert: one day run through integrated_main, then run again with one *)
(* more reading, a valid-ON spike, inserted                                 *)

MaxBase == 4

InsertTimes == {0, 2000, 2300}

InsertValues == {Num(41), Num(-50), Num(50)}

SpikeTimes == {1000}

SpikeValues == {Num(50)}

InsertSpike ==
    /\ pc = "done"
    /\ prev = <<>>
    /\ \E t \in SpikeTimes, x \in SpikeValues :
          /\ prev' = <<[results |-> results, group |-> group, time |-> t]>>
          /\ rows' = InsertByTime(rows, [time |-> t, raw |-> x])
    /\ Restart
    /\ UNCHANGED <<site, sensor_column, cfg, extractVars, batchVars>>

InitInsert ==
    /\ site = "main"
    /\ sensor_column = "sZ"
    /\ cfg \in {Config(n) : n \in OffCounts}
    /\ rows \in RowSeqs(MaxBase, InsertTimes, InsertValues)
    /\ InitScan
    /\ pc = "prepare"
    /\ IdleExtract
    /\ IdleBatch

NextInsert == ScanStep \/ InsertSpike

SpecInsert == InitInsert /\ [][NextInsert]_vars

Abs(x) == IF x < 0 THEN -x ELSE x

(* no reading of the day g lies within the window length of time t *)
Isolated(g, t, c) == \A k \in 1..Len(g) : Abs(g[k].time - t) > WindowSeconds(c)

(* the position of time t in g: the number of readings before it *)
PositionOf(g, t) == Cardinality({k \in 1..Len(g) : g[k].time < t})

(* at least consecutive_off_count OFF-qualifying readings since the last   *)
(* valid-ON reading before the position (or no valid-ON reading at all),   *)
(* and at least that many OFF-qualifying readings right after it           *)
BetweenConfirmedOff(g, t, c) ==
    LET p == PositionOf(g, t)
        q == PrevValidOn(g, p + 1, c)
    IN /\ q = 0 \/ p - q >= c.consecutive_off_count
       /\ p + c.consecutive_off_count <= Len(g)
       /\ \A k \in (p + 1)..(p + c.consecutive_off_count) : ~ValidOn(g[k].v, c)

SpikeInserted ==
    /\ prev # <<>>
    /\ pc = "done"
    /\ Isolated(prev[1].group, prev[1].time, cfg)
    /\ BetweenConfirmedOff(prev[1].group, prev[1].time, cfg)

(* C4: inserting one isolated valid-ON reading between two confirmed OFF  *)
(* stretches of a day increases that day's cycle_count by exactly 1 and   *)
(* adds 0 to on_seconds.                                                  *)
C4_IsolatedSpike ==
    SpikeInserted =>
        /\ results[1].cycle_count = prev[1].results[1].cycle_count + 1
        /\ results[1].total_on_seconds = prev[1].results[1].total_on_seconds

----------------------------------------------------------------------------
(* integrated_main.main, process_device and insert_metrics_to_db, and the   *)
(* run of integrated_runonce.main, on one machine_metrics table.  The       *)
(* metric_data of an op_hours row, on_hours + on_minutes/60, is kept in     *)
(* sixtieths of an hour.                                                    *)

MaxRuns == 2

(* three devices of TYPE1_DEVICES, in its order: a numeric threshold, a *)
(* numeric string and the OFFLINE sentinel                              *)
Devices == <<"HFLT001", "STMT002", "JKFL001">>

(* the device integrated_runonce.main is run for *)
RunonceDevice == "JKFL001"

ConfiguredThreshold(k) == <<"number", "numeric_string", "OFFLINE">>[k]

(* the threshold entries tried: the configured one, and for the second device *)
(* one that float() rejects                                                   *)
ThresholdChoices(k) ==
    IF k = 2 THEN {ConfiguredThreshold(k), "invalid"} ELSE {ConfiguredThreshold(k)}

(* what process_vibration_data returns for a device: no record, a record for *)
(* day 0 (idle, or 75 minutes ON in 2 cycles), or records for days 0 and 1   *)
IdleDay(d) == DayRecord(d, 0, OffSeconds(0), 0)

BusyDay(d) == DayRecord(d, 4500, OffSeconds(4500), 2)

BatchResults == {<<>>, <<IdleDay(0)>>, <<BusyDay(0)>>, <<BusyDay(0), IdleDay(1)>>}

(* what the environment does to one process_device call *)
Env(fetch, processed, res, ok) ==
    [fetch |-> fetch, processed |-> processed, res |-> res, ok |-> ok]

Envs ==
    {Env("error", FALSE, <<>>, FALSE), Env("empty", FALSE, <<>>, FALSE),
     Env("rows", FALSE, <<>>, FALSE)}
    \cup {Env("rows", TRUE, res, ok) : res \in BatchResults, ok \in BOOLEAN}

MetricRow(d, type, date, value) ==
    [device_id |-> d, metric_type |-> type, metric_date |-> date, metric_data |-> value]

SameKey(a, b) ==
    /\ a.device_id = b.device_id
    /\ a.metric_type = b.metric_type
    /\ a.metric_date = b.metric_date

(* INSERT without the ON CONFLICT clause, on a table without the constraint *)
UpsertAppend(tbl, row) == Append(tbl, row)

(* INSERT ... ON CONFLICT (device_id, metric_type, metric_date) DO UPDATE *)
Upsert(tbl, row) ==
    IF \E k \in 1..Len(tbl) : SameKey(tbl[k], row)
    THEN [k \in 1..Len(tbl) |-> IF SameKey(tbl[k], row) THEN row ELSE tbl[k]]
    ELSE Append(tbl, row)

(* line 270: on_hours + on_minutes / 60, in sixtieths *)
OpHours(rec) == rec.on_hours * MinutesPerHour + rec.on_minutes

(* lines 267-289: the two statements of each result, in the order of results *)
RECURSIVE UpsertAll(_, _, _)
UpsertAll(tbl, res, d) ==
    IF res = <<>> THEN tbl
    ELSE LET r == Head(res)
             t1 == Upsert(tbl, MetricRow(d, "op_hours", r.date, OpHours(r)))
             t2 == Upsert(t1, MetricRow(d, "op_cycles", r.date, r.cycle_count))
         IN UpsertAll(t2, Tail(res), d)

(* the transaction commits every statement or, after psycopg.Error, none *)
InsertMetrics(tbl, res, d, ok) == IF ok THEN UpsertAll(tbl, res, d) ELSE tbl

(* history: the record last committed for each (device, date), and the one *)
(* committed before it                                                     *)
Committed(last, res, d) ==
    LET dts == {res[k].date : k \in 1..Len(res)}
        Before(dt) == LET old == {x \in last : x.device_id = d /\ x.date = dt}
                      IN IF old = {} THEN <<>> ELSE <<(CHOOSE x \in old : TRUE).rec>>
    IN {x \in last : ~(x.device_id = d /\ x.date \in dts)}
       \cup {[device_id |-> d, date |-> res[k].date, rec |-> res[k],
              before |-> Before(res[k].date)] : k \in 1..Len(res)}

Failures == {"fetch_error", "process_error", "insert_error"}

(* how process_device ends: lines 304-306, 309-313, 319-325, 330, 341-353, *)
(* and the handlers of lines 294 and 355                                   *)
DeviceOutcome(threshold, fetch, processed, res, ok) ==
    IF threshold = "OFFLINE" THEN "offline"
    ELSE IF threshold = "invalid" THEN "invalid_threshold"
    ELSE IF fetch = "error" THEN "fetch_error"
    ELSE IF fetch = "empty" THEN "no_data"
    ELSE IF ~processed THEN "process_error"
    ELSE IF res = <<>> THEN "no_results"
    ELSE IF ~ok THEN "insert_error"
    ELSE "inserted"

(* an error in one device ends the loop *)
NextDeviceAbortOnError(k, out) ==
    IF out \in Failures \cup {"invalid_threshold"} THEN Len(Devices) + 1 ELSE k + 1

(* lines 370-371: process_device returns normally whatever happened *)
NextDevice(k, out) == k + 1

(* lines 360-368: a run of integrated_main.main starts *)
StartMain ==
    /\ bpc \in {"idle", "done"}
    /\ runs < MaxRuns
    /\ runs' = runs + 1
    /\ bpc' = "loop"
    /\ dev' = 1
    /\ invoked' = <<>>
    /\ outcome' = <<>>
    /\ thisRun' = <<>>
    /\ UNCHANGED <<device_config, table, lastRun, scanVars, extractVars>>

(* lines 370-371 and 297-358: process_device for the next device *)
ProcessDevice ==
    /\ bpc = "loop"
    /\ dev <= Len(Devices)
    /\ \E e \in Envs :
          LET d == Devices[dev]
              out == DeviceOutcome(device_config[dev], e.fetch, e.processed, e.res, e.ok)
              computed == out \in {"no_results", "insert_error", "inserted"}
          IN /\ invoked' = Append(invoked, d)
             /\ outcome' = Append(outcome, out)
             /\ thisRun' = Append(thisRun, IF computed THEN e.res ELSE <<>>)
             /\ table' = IF out \in {"insert_error", "inserted"}
                         THEN InsertMetrics(table, e.res, d, e.ok) ELSE table
             /\ lastRun' = IF out = "inserted" THEN Committed(lastRun, e.res, d)
                           ELSE lastRun
             /\ dev' = NextDevice(dev, out)
    /\ UNCHANGED <<device_config, bpc, runs, scanVars, extractVars>>

(* line 373: every device has been visited *)
FinishMain ==
    /\ bpc = "loop"
    /\ dev > Len(Devices)
    /\ bpc' = "done"
    /\ UNCHANGED <<device_config, dev, table, invoked, outcome, thisRun, lastRun,
                   runs, scanVars, extractVars>>

(* integrated_runonce.main, lines 300-358: fetch, process, insert; its     *)
(* insert_metrics_to_db re-raises and main's handler ends the run          *)
RunonceMain ==
    /\ bpc \in {"idle", "done"}
    /\ runs < MaxRuns
    /\ runs' = runs + 1
    /\ bpc' = "idle"
    /\ \E e \in Envs :
          LET reached == e.fetch = "rows" /\ e.processed
          IN /\ table' = IF reached
                         THEN InsertMetrics(table, e.res, RunonceDevice, e.ok)
                         ELSE table
             /\ lastRun' = IF reached /\ e.ok
                           THEN Committed(lastRun, e.res, RunonceDevice)
                           ELSE lastRun
    /\ UNCHANGED <<device_config, dev, invoked, outcome, thisRun, scanVars,
                   extractVars>>

BatchStep ==
    \/ StartMain
    \/ ProcessDevice
    \/ FinishMain
    \/ RunonceMain

InitBatch ==
    /\ device_config \in {c \in [1..Len(Devices) -> {"number", "numeric_string", "OFFLINE", "invalid"}] :
                            \A k \in 1..Len(Devices) : c[k] \in ThresholdChoices(k)}
    /\ bpc = "idle"
    /\ dev = 0
    /\ table = <<>>
    /\ invoked = <<>>
    /\ outcome = <<>>
    /\ thisRun = <<>>
    /\ lastRun = {}
    /\ runs = 0
    /\ IdleScan
    /\ IdleExtract

SpecBatch == InitBatch /\ [][BatchStep]_vars

RowsOf(tbl) == {tbl[k] : k \in 1..Len(tbl)}

(* C9: after any sequence of insert_metrics_to_db runs the table holds at  *)
(* most one row per (device_id, metric_type, metric_date), and that row's  *)
(* value is the one of the most recent committed run for the key:          *)
(* op_hours = on_hours + on_minutes/60 and op_cycles = cycle_count.        *)
C9_UpsertLastWins ==
    /\ \A a, b \in 1..Len(table) : SameKey(table[a], table[b]) => a = b
    /\ \A x \in lastRun :
          /\ MetricRow(x.device_id, "op_hours", x.date,
                       x.rec.on_hours * 60 + x.rec.on_minutes) \in RowsOf(table)
          /\ MetricRow(x.device_id, "op_cycles", x.date, x.rec.cycle_count)
                \in RowsOf(table)
    /\ \A a \in 1..Len(table) :
          \E x \in lastRun : x.device_id = table[a].device_id
                             /\ x.date = table[a].metric_date

(* a key has been written twice, with different results *)
C9_Witness ==
    \E x \in lastRun :
        /\ x.before # <<>>
        /\ x.before[1] # x.rec
        /\ MetricRow(x.device_id, "op_cycles", x.date, x.rec.cycle_count)
              \in RowsOf(table)

(* C10: a failure while processing one device never aborts the batch:      *)
(* process_device is invoked for every device of TYPE1_DEVICES, in order,  *)
(* and every device whose own processing succeeded has in the table the    *)
(* metrics of the results computed for it.                                 *)
C10_FailureIsolated ==
    bpc = "done" =>
        /\ invoked = Devices
        /\ \A k \in 1..Len(Devices) :
              outcome[k] = "inserted" =>
                  \A n \in 1..Len(thisRun[k]) :
                      LET r == thisRun[k][n]
                      IN /\ MetricRow(Devices[k], "op_hours", r.date,
                                      r.on_hours * 60 + r.on_minutes) \in RowsOf(table)
                         /\ MetricRow(Devices[k], "op_cycles", r.date, r.cycle_count)
                               \in RowsOf(table)

(* the first device failed and a later one has its metrics in the table *)
C10_Witness ==
    /\ bpc = "done"
    /\ outcome[1] \in Failures
    /\ outcome[2] = "inserted"
    /\ table # <<>>

----------------------------------------------------------------------------
(* A fault inside one day's computation.  The body of the loop over the     *)
(* days (lines 164-246) holds no try statement, so an exception raised by   *)
(* any of its statements leaves process_vibration_data at once: the return  *)
(* of line 248 is not reached and the handler of process_device (line 355)  *)
(* only prints it.                                                          *)

DayPhases == {"on_scan", "search", "slide", "confirm"}

DayFault ==
    /\ pc \in DayPhases
    /\ pc' = "raised"
    /\ lastStep' = NoStep
    /\ UNCHANGED <<site, sensor_column, cfg, rows, data, dates, group, i,
                   total_on_seconds, total_off_seconds, j, cycle_count,
                   off_counter, results, prev, extractVars, batchVars>>

(* what the caller receives: the list of line 248, nothing after a raise *)
Returned == IF pc = "done" THEN results ELSE <<>>

(* two readings on each of two days *)
FaultTimes == {0, 300, 86400, 86700}

FaultValues == {None, Num(41), Num(50)}

InitFault ==
    /\ site \in Sites
    /\ sensor_column = "sZ"
    /\ cfg \in {Config(n) : n \in OffCounts}
    /\ rows \in RowSeqs(MaxLen, FaultTimes, FaultValues)
    /\ InitScan
    /\ pc = "prepare"
    /\ IdleExtract
    /\ IdleBatch

NextFault ==
    \/ ScanStep
    \/ DayFault

SpecFault == InitFault /\ [][NextFault]_vars

DatesOf(d) == {d[k].date : k \in 1..Len(d)}

RecordedDates(rs) == {rs[k].date : k \in 1..Len(rs)}

(* C11: when the computation of one day of a multi-day batch faults, the     *)
(* records of the other days of the batch are still produced and returned:   *)
(* once the run has ended, by return or by the fault of a day whose readings *)
(* the scan can compare, every day of the batch other than the faulted one   *)
(* has a record among those returned.                                        *)
C11_DayFaultIsolated ==
    /\ pc = "done" => RecordedDates(Returned) = DatesOf(data)
    /\ (pc = "raised" /\ ~ScalarCompareRaises(site, rows)) =>
           DatesOf(data) \ {group[1].date} \subseteq RecordedDates(Returned)

----------------------------------------------------------------------------
(* The cursor of the ON-time scan *)

(* the 0-based index of the first reading of the time-sorted day g whose *)
(* timestamp is at least t, Len(g) when there is none                     *)
FirstAtOrAfter(g, t) == Cardinality({k \in 1..Len(g) : g[k].time < t})

(* C12: after a window is seeded by the ON reading at index i with timestamp *)
(* t, the cursor of the ON-time scan rests on the first reading with         *)
(* timestamp >= t + window (or at the end of the day): it has passed exactly *)
(* the readings of [t, t + window) at indices >= i and has skipped no        *)
(* reading outside the window, also when readings share a timestamp.         *)
C12_CursorRestsAtWindowEnd ==
    [][(pc = "on_scan" /\ i < Len(group) /\ At(group, i).ON)
        => i' = FirstAtOrAfter(group, At(group, i).time + WindowSeconds(cfg))]_vars

----------------------------------------------------------------------------
(* Termination of the two scans.  The loops of process_vibration_data run *)
(* on one thread with nothing to wait for: every enabled step is taken.   *)

SpecTerm == InitFault /\ [][ScanStep]_vars /\ WF_vars(ScanStep)

----------------------------------------------------------------------------
(* Bounds of the ON time of a day *)

(* the elapsed span between the earliest and the latest reading of day dt *)
DaySpan(d, dt) ==
    LET T == {d[k].time : k \in {n \in 1..Len(d) : d[n].date = dt}}
    IN (CHOOSE x \in T : \A y \in T : y <= x) - (CHOOSE x \in T : \A y \in T : x <= y)

(* C14: for every day, on_seconds is non-negative and at most the elapsed   *)
(* span between that day's earliest and latest reading, hence below 86400,  *)
(* and off_seconds is positive.  During the ON-time scan the total is at    *)
(* most the span from the day's first reading to the last reading passed.   *)
C14_OnTimeWithinSpan ==
    /\ (pc = "on_scan" /\ i = 0) => total_on_seconds = 0
    /\ (pc = "on_scan" /\ i > 0) =>
           /\ total_on_seconds >= 0
           /\ total_on_seconds <= group[Min(i, Len(group))].time - group[1].time
    /\ pc \in CyclePhases => total_off_seconds > 0
    /\ \A k \in 1..Len(results) :
           /\ results[k].total_on_seconds >= 0
           /\ results[k].total_on_seconds <= DaySpan(data, results[k].date)
           /\ results[k].total_on_seconds < total_seconds_in_day
           /\ OffSeconds(results[k].total_on_seconds) > 0

(* a recorded day whose ON time is its whole span *)
C14_Witness ==
    /\ pc = "done"
    /\ \E k \in 1..Len(results) :
          /\ results[k].total_on_seconds > 0
          /\ results[k].total_on_seconds = DaySpan(data, results[k].date)

----------------------------------------------------------------------------
(* Agreement of the ON time and the cycle count of a day *)

(* the prepared values of the readings of day dt *)
DayValues(d, dt) == {d[k].v : k \in {n \in 1..Len(d) : d[n].date = dt}}

(* every reading of the day beyond a threshold, on either side, lies in *)
(* (positive_threshold, max_vibration]                                  *)
OnReadingsValid(d, dt, c) ==
    \A x \in DayValues(d, dt) :
        (Gt(x, c.positive_threshold) \/ Lt(x, c.negative_threshold)) =>
            (Gt(x, c.positive_threshold) /\ Le(x, c.max_vibration))

(* C15, as stated: for every day record produced, on_seconds > 0 implies *)
(* cycle_count >= 1.                                                      *)
C15_OnTimeImpliesCycle ==
    \A k \in 1..Len(results) :
        results[k].total_on_seconds > 0 => results[k].cycle_count >= 1

(* C15, amended: for every day record whose readings classified ON all *)
(* have positive_threshold < value <= max_vibration, on_seconds > 0     *)
(* implies cycle_count >= 1.                                            *)
C15_OnTimeImpliesCycleAmended ==
    \A k \in 1..Len(results) :
        (OnReadingsValid(data, results[k].date, cfg)
            /\ results[k].total_on_seconds > 0)
        => results[k].cycle_count >= 1

(* a recorded day with ON time, a cycle, and all its ON readings valid *)
C15_Witness ==
    \E k \in 1..Len(results) :
        /\ OnReadingsValid(data, results[k].date, cfg)
        /\ results[k].total_on_seconds > 0
        /\ results[k].cycle_count >= 1

====
